---- MODULE Spec2Model ----
(***************************************************************************)
(* Model of mcp_datajud_server.py: the two tool endpoints /invoke/search   *)
(* and /invoke/fetch (one upstream DataJud query each) and the /sse        *)
(* discovery stream (tool catalog, then keep-alive pings).                 *)
(*                                                                         *)
(* Text is a sequence of one-character strings, so that str(), strip()     *)
(* and the f-strings are computed rather than assumed.  A JSON value is a  *)
(* tagged record: JNull, JBool(b), JInt(n), JStr(s), JList(l), JObj(o),    *)
(* where o is a function from key names to JSON values.                    *)
(***************************************************************************)
EXTENDS Integers, Sequences, FiniteSets, TLC

\* ------------------------------------------------------------- bounds
\* Longest upstream hit list.
MaxHits == 2
\* Most frames one /sse connection emits before the model stops following it.
MaxFrames == 3
\* Most connections (first connection and reconnections) one client opens.
MaxConns == 2

\* ------------------------------------------------------------- JSON values
JNull == [t |-> "null"]
JBool(b) == [t |-> "bool", b |-> b]
JInt(n) == [t |-> "int", n |-> n]
JStr(s) == [t |-> "str", s |-> s]
JList(l) == [t |-> "list", l |-> l]
JObj(o) == [t |-> "obj", o |-> o]
EmptyObj == JObj(<<>>)

\* The marker of a key that an object does not carry (not a JSON value).
Absent == [t |-> "absent"]

\* One key of an object literal, left out when its value is Absent.
Field(k, v) == IF v = Absent THEN <<>> ELSE (k :> v)

\* Python truthiness, as used by `or`, `if items`, `if not src`, `if i`.
Truthy(v) ==
    CASE v.t = "null" -> FALSE
      [] v.t = "bool" -> v.b
      [] v.t = "int" -> v.n # 0
      [] v.t = "str" -> v.s # <<>>
      [] v.t = "list" -> v.l # <<>>
      [] v.t = "obj" -> DOMAIN v.o # {}

\* dict.get(k, d) on an object.
Get(v, k, d) == IF k \in DOMAIN v.o THEN v.o[k] ELSE d

\* ------------------------------------------------------------- text
Digit(d) == <<"0", "1", "2", "3", "4", "5", "6", "7", "8", "9">>[d + 1]

RECURSIVE NatToText(_)
NatToText(n) == IF n < 10 THEN <<Digit(n)>> ELSE NatToText(n \div 10) \o <<Digit(n % 10)>>

\* str(v) for the scalar JSON values.
PyStr(v) ==
    CASE v.t = "str" -> v.s
      [] v.t = "int" -> IF v.n < 0 THEN <<"-">> \o NatToText(-v.n) ELSE NatToText(v.n)
      [] v.t = "null" -> <<"N", "o", "n", "e">>
      [] v.t = "bool" -> IF v.b THEN <<"T", "r", "u", "e">> ELSE <<"F", "a", "l", "s", "e">>

RECURSIVE LStrip(_)
LStrip(s) == IF s # <<>> /\ Head(s) = " " THEN LStrip(Tail(s)) ELSE s

RECURSIVE RStrip(_)
RStrip(s) == IF s # <<>> /\ s[Len(s)] = " " THEN RStrip(SubSeq(s, 1, Len(s) - 1)) ELSE s

\* str.strip()
Strip(s) == RStrip(LStrip(s))

DigitValue(c) == CHOOSE d \in 0..9 : Digit(d) = c

IsDigits(s) == s # <<>> /\ \A i \in 1..Len(s) : s[i] \in {Digit(d) : d \in 0..9}

RECURSIVE DigitsToNat(_)
DigitsToNat(s) ==
    IF s = <<>> THEN 0 ELSE 10 * DigitsToNat(SubSeq(s, 1, Len(s) - 1)) + DigitValue(s[Len(s)])

\* Whether int(v) returns (it raises TypeError on None, ValueError on "x").
IntOk(v) ==
    CASE v.t = "int" -> TRUE
      [] v.t = "bool" -> TRUE
      [] v.t = "str" -> IsDigits(Strip(v.s))
      [] OTHER -> FALSE

\* int(v), where IntOk(v).
PyInt(v) ==
    CASE v.t = "int" -> v.n
      [] v.t = "bool" -> IF v.b THEN 1 ELSE 0
      [] v.t = "str" -> DigitsToNat(Strip(v.s))

\* Whether text s contains text sub.
Contains(s, sub) ==
    \E i \in 0..(Len(s) - Len(sub)) : SubSeq(s, i + 1, i + Len(sub)) = sub

\* ------------------------------------------------------------- configuration
DATAJUD_BASE ==
    <<"h", "t", "t", "p", "s", ":", "/", "/", "a", "p", "i", "-", "p", "u", "b", "l", "i", "c", "a", ".", "d", "a", "t", "a", "j", "u", "d", ".", "c", "n", "j", ".", "j", "u", "s", ".", "b", "r">>

DEFAULT_ALIAS == <<"a", "p", "i", "_", "p", "u", "b", "l", "i", "c", "a", "_", "t", "j", "r", "j">>

SearchPath == <<"/", "_", "s", "e", "a", "r", "c", "h">>

ErrorPrefix == <<"E", "r", "r", "o", " ", "D", "a", "t", "a", "J", "u", "d", ":", " ">>

\* The page size of /invoke/search when `size` is not given.
DefaultSize == 10

\* The status of the response to a request whose handler raised anything other
\* than HTTPException, and that response's text.
InternalServerError == 500

InternalErrorText == <<"I", "n", "t", "e", "r", "n", "a", "l", " ", "S", "e", "r", "v", "e", "r", " ", "E", "r", "r", "o", "r">>

StatusOk == 200

\* The lowest upstream status _post_search treats as an error.
ErrorStatusFloor == 400

ToolSearch ==
    JObj(("name" :> JStr(<<"s", "e", "a", "r", "c", "h">>))
         @@ ("input_schema" :> JObj(
                ("type" :> JStr(<<"o", "b", "j", "e", "c", "t">>))
                @@ ("properties" :> JObj(
                       ("query" :> JObj("type" :> JStr(<<"s", "t", "r", "i", "n", "g">>)))
                       @@ ("size" :> JObj(("type" :> JStr(<<"i", "n", "t", "e", "g", "e", "r">>))
                                          @@ ("default" :> JInt(DefaultSize))))
                       @@ ("alias" :> JObj(("type" :> JStr(<<"s", "t", "r", "i", "n", "g">>))
                                           @@ ("default" :> JStr(DEFAULT_ALIAS))))))
                @@ ("required" :> JList(<<JStr(<<"q", "u", "e", "r", "y">>)>>)))))

ToolFetch ==
    JObj(("name" :> JStr(<<"f", "e", "t", "c", "h">>))
         @@ ("input_schema" :> JObj(
                ("type" :> JStr(<<"o", "b", "j", "e", "c", "t">>))
                @@ ("properties" :> JObj(
                       ("id" :> JObj("type" :> JStr(<<"s", "t", "r", "i", "n", "g">>)))
                       @@ ("alias" :> JObj(("type" :> JStr(<<"s", "t", "r", "i", "n", "g">>))
                                           @@ ("default" :> JStr(DEFAULT_ALIAS))))))
                @@ ("required" :> JList(<<JStr(<<"i", "d">>)>>)))))

\* The static tool catalog (descriptions, which are free text, left out).
TOOLS == JList(<<ToolSearch, ToolFetch>>)

\* ------------------------------------------------------------- helpers
\* What r.json() gives for a body that is not JSON (it raises).
InvalidJson == [t |-> "invalid"]

\* The outcome of a call that raised something other than HTTPException.
Fault == [raised |-> "fault", status |-> InternalServerError, detail |-> InternalErrorText,
          data |-> JNull]

\* _post_search's URL.
Url(alias) == DATAJUD_BASE \o <<"/">> \o alias \o SearchPath

\* The request _post_search sends.
UpstreamRequest(alias, body) == [url |-> Url(alias), content |-> body]

\* _post_search with the upstream text left out of the error it raises.
PostSearchDropsText(reply) ==
    IF reply.kind = "timeout" THEN Fault
    ELSE IF reply.status >= ErrorStatusFloor
    THEN [raised |-> "http", status |-> reply.status, detail |-> ErrorPrefix, data |-> JNull]
    ELSE IF reply.json = InvalidJson THEN Fault
    ELSE [raised |-> "none", status |-> StatusOk, detail |-> <<>>, data |-> reply.json]

\* _post_search once the upstream call has ended with `reply`: a response
\* [kind |-> "response", status, text, json] or [kind |-> "timeout", ...].
PostSearch(reply) ==
    IF reply.kind = "timeout" THEN Fault
    ELSE IF reply.status >= ErrorStatusFloor
    THEN [raised |-> "http", status |-> reply.status, detail |-> ErrorPrefix \o reply.text,
          data |-> JNull]
    ELSE IF reply.json = InvalidJson THEN Fault
    ELSE [raised |-> "none", status |-> StatusOk, detail |-> <<>>, data |-> reply.json]

\* The marker of a helper that raised.
Raised == [t |-> "raised"]

\* data.get("hits", {}).get("hits", []): Raised when the outer value has no get().
HitItems(data) ==
    LET outer == Get(data, "hits", EmptyObj)
    IN  IF outer.t # "obj" THEN Raised ELSE Get(outer, "hits", JList(<<>>))

\* _first_source taking the last hit (items[-1]) instead of the first.
LastSource(data) ==
    LET items == HitItems(data)
    IN  IF items = Raised THEN Raised
        ELSE IF Truthy(items) THEN Get(items.l[Len(items.l)], "_source", JNull)
        ELSE JNull

\* _first_source
FirstSource(data) ==
    LET items == HitItems(data)
    IN  IF items = Raised THEN Raised
        ELSE IF Truthy(items) THEN Get(items.l[1], "_source", JNull)
        ELSE JNull

\* The arguments taken from the body as it is, wrapped or not.
ArgsNeverUnwrapped(payload) == payload

\* payload.get("arguments", payload)
Args(payload) == Get(payload, "arguments", payload)

\* str(args.get("alias", DEFAULT_ALIAS)): the default only for an absent key.
AliasOfKeyDefault(args) == PyStr(Get(args, "alias", JStr(DEFAULT_ALIAS)))

\* str(args.get("alias") or DEFAULT_ALIAS)
AliasOf(args) ==
    LET a == Get(args, "alias", JNull)
    IN  PyStr(IF Truthy(a) THEN a ELSE JStr(DEFAULT_ALIAS))

\* ------------------------------------------------------------- responses
\* What the client receives: a status and a JSON (or, for a fault, text) body.
OkResponse(envelope) == [status |-> StatusOk, body |-> envelope]

\* The response FastAPI makes of a raised HTTPException or of any other exception.
ErrorResponse(r) ==
    IF r.raised = "http"
    THEN [status |-> r.status, body |-> JObj("detail" :> JStr(r.detail))]
    ELSE [status |-> InternalServerError, body |-> JStr(InternalErrorText)]

\* ------------------------------------------------------------- /invoke/search
NumeroProcessoText == <<"n", "u", "m", "e", "r", "o", "P", "r", "o", "c", "e", "s", "s", "o">>

SearchBody(query, size) ==
    JObj(("query" :> JObj("bool" :> JObj("should" :> JList(<<
             JObj("match" :> JObj("numeroProcesso" :> JStr(query))),
             JObj("match_phrase" :> JObj("classe.descricao" :> JStr(query)))>>))))
         @@ ("_source" :> JObj("includes" :> JList(<<JStr(NumeroProcessoText)>>)))
         @@ ("size" :> JInt(size)))

\* invoke_search up to its upstream call: a fault, or the call's alias and body.
SearchParse(payload) ==
    LET args == Args(payload)
    IN  IF args.t # "obj" \/ "query" \notin DOMAIN args.o THEN [fault |-> TRUE]
        ELSE IF ~IntOk(Get(args, "size", JInt(DefaultSize))) THEN [fault |-> TRUE]
        ELSE [fault |-> FALSE,
              alias |-> AliasOf(args),
              body |-> SearchBody(Strip(PyStr(args.o["query"])),
                                  PyInt(Get(args, "size", JInt(DefaultSize))))]

\* [h.get("_source", {}).get("numeroProcesso") for h in hits if h.get("_source")]
RECURSIVE SourceIds(_)
SourceIds(hits) ==
    IF hits = <<>> THEN <<>>
    ELSE LET h == Head(hits)
         IN  (IF Truthy(Get(h, "_source", JNull))
              THEN <<Get(Get(h, "_source", EmptyObj), "numeroProcesso", JNull)>>
              ELSE <<>>) \o SourceIds(Tail(hits))

\* [i for i in ids if i]
TruthyOnly(ids) == SelectSeq(ids, Truthy)

\* invoke_search from the upstream reply on.
SearchRespond(reply) ==
    LET r == PostSearch(reply)
    IN  IF r.raised # "none" THEN ErrorResponse(r)
        ELSE LET hits == HitItems(r.data)
             IN  IF hits = Raised \/ hits.t # "list" THEN ErrorResponse(Fault)
                 ELSE OkResponse(JObj(("ok" :> JBool(TRUE))
                                      @@ ("ids" :> JList(TruthyOnly(SourceIds(hits.l))))))

\* ------------------------------------------------------------- /invoke/fetch
FetchBody(proc_id) ==
    JObj(("query" :> JObj("match" :> JObj("numeroProcesso" :> JStr(proc_id))))
         @@ ("size" :> JInt(1)))

\* invoke_fetch up to its upstream call.
FetchParse(payload) ==
    LET args == Args(payload)
    IN  IF args.t # "obj" \/ "id" \notin DOMAIN args.o THEN [fault |-> TRUE]
        ELSE [fault |-> FALSE,
              alias |-> AliasOf(args),
              body |-> FetchBody(Strip(PyStr(args.o["id"])))]

\* invoke_fetch from the upstream reply on.
FetchRespond(reply) ==
    LET r == PostSearch(reply)
    IN  IF r.raised # "none" THEN ErrorResponse(r)
        ELSE LET src == FirstSource(r.data)
             IN  IF src = Raised THEN ErrorResponse(Fault)
                 ELSE IF ~Truthy(src)
                 THEN OkResponse(JObj(("ok" :> JBool(TRUE)) @@ ("result" :> JNull)))
                 ELSE OkResponse(JObj(("ok" :> JBool(TRUE)) @@ ("result" :> src)))

\* ------------------------------------------------------------- inputs
\* The clients of the discovery stream.
Clients == {"c1", "c2"}

QueryValues == {Absent, JStr(<<" ", "a", " ">>)}
IdValues == {Absent, JStr(<<"p", "1", " ">>)}
SizeValues == {Absent, JInt(1), JStr(<<"2">>), JNull}
AliasValues == {Absent, JNull, JStr(<<>>), JStr(<<"t", "j">>), JInt(0)}
\* A key named "arguments" inside an arguments object.
InnerValues == {Absent, JObj(("query" :> JStr(<<"b">>)) @@ ("id" :> JStr(<<"p", "2">>)))}

ArgsObjects ==
    {JObj(Field("query", q) @@ Field("id", i) @@ Field("size", z) @@ Field("alias", a)
          @@ Field("arguments", n)) :
        q \in QueryValues, i \in IdValues, z \in SizeValues, a \in AliasValues,
        n \in InnerValues}

\* The wrapped form of an arguments object.
Wrapped(args) == JObj("arguments" :> args)

\* Request bodies: flat, wrapped, and wrapped around null.
Payloads == ArgsObjects \cup {Wrapped(A) : A \in ArgsObjects} \cup {Wrapped(JNull)}

P1 == JStr(<<"p", "1">>)
P2 == JStr(<<"p", "2">>)

SourceValues ==
    {Absent, EmptyObj, JObj("grau" :> JStr(<<"G", "1">>)), JObj("numeroProcesso" :> JNull),
     JObj("numeroProcesso" :> JStr(<<>>)), JObj("numeroProcesso" :> P1),
     JObj("numeroProcesso" :> P2)}

Hits == {JObj(Field("_source", v)) : v \in SourceValues}

HitLists == UNION {[1..n -> Hits] : n \in 0..MaxHits}

DataValues ==
    {EmptyObj, JObj("hits" :> JNull), JObj("hits" :> EmptyObj),
     JObj("hits" :> JObj("hits" :> JNull))}
    \cup {JObj("hits" :> JObj("hits" :> JList(l))) : l \in HitLists}

ErrorTexts == {<<>>, <<"i", "n", "t", "e", "r", "n", "a", "l", " ", "e", "r", "r", "o", "r">>}

Response(status, text, json) ==
    [kind |-> "response", status |-> status, text |-> text, json |-> json]

Timeout == [kind |-> "timeout", status |-> 0, text |-> <<>>, json |-> InvalidJson]

\* What an upstream call can end with.
Replies ==
    {Response(200, <<>>, d) : d \in DataValues \cup {InvalidJson}}
    \cup {Response(399, <<>>, EmptyObj)}
    \cup {Response(st, tx, InvalidJson) : st \in {400, 404, 500}, tx \in ErrorTexts}
    \cup {Timeout}

\* ------------------------------------------------------------- state
VARIABLES
    inv,        \* the invocation being served: pc, endpoint, payload, reply, response
    upstream,   \* the upstream requests that invocation has sent, in order
    sse         \* per client, its /sse connection: pc, disconnected, frames, ...

vars == <<inv, upstream, sse>>

NoReply == [kind |-> "none", status |-> 0, text |-> <<>>, json |-> InvalidJson]
NoResponse == [status |-> 0, body |-> JNull]

Idle ==
    [pc |-> "idle", endpoint |-> "none", payload |-> JNull, reply |-> NoReply,
     response |-> NoResponse]

NoConnection ==
    [pc |-> "none", disconnected |-> FALSE, frames |-> <<>>, conns |-> 0, latePings |-> 0]

Init ==
    /\ inv = Idle
    /\ upstream = <<>>
    /\ sse = [c \in Clients |-> NoConnection]

\* ------------------------------------------------------------- invocations
\* The invocation once its handler has run to its upstream call, or to the fault
\* that ends it.
Started(endpoint, payload, parsed) ==
    IF parsed.fault
    THEN [pc |-> "done", endpoint |-> endpoint, payload |-> payload, reply |-> NoReply,
          response |-> ErrorResponse(Fault)]
    ELSE [pc |-> "await", endpoint |-> endpoint, payload |-> payload, reply |-> NoReply,
          response |-> NoResponse]

\* The upstream requests of a handler that sends its request a second time.
SentWithRetry(parsed) ==
    IF parsed.fault THEN <<>>
    ELSE <<UpstreamRequest(parsed.alias, parsed.body), UpstreamRequest(parsed.alias, parsed.body)>>

\* The upstream requests it has sent by then.
Sent(parsed) ==
    IF parsed.fault THEN <<>> ELSE <<UpstreamRequest(parsed.alias, parsed.body)>>

\* POST /invoke/search, to the await of _post_search.
InvokeSearchBegin ==
    /\ inv.pc = "idle"
    /\ \E payload \in Payloads :
          /\ inv' = Started("search", payload, SearchParse(payload))
          /\ upstream' = Sent(SearchParse(payload))
    /\ UNCHANGED sse

\* POST /invoke/fetch, to the await of _post_search.
InvokeFetchBegin ==
    /\ inv.pc = "idle"
    /\ \E payload \in Payloads :
          /\ inv' = Started("fetch", payload, FetchParse(payload))
          /\ upstream' = Sent(FetchParse(payload))
    /\ UNCHANGED sse

\* The upstream call of /invoke/search ends and the handler runs to its end.
InvokeSearchEnd ==
    /\ inv.pc = "await"
    /\ inv.endpoint = "search"
    /\ \E reply \in Replies :
          inv' = [inv EXCEPT !.pc = "done", !.reply = reply,
                             !.response = SearchRespond(reply)]
    /\ UNCHANGED <<upstream, sse>>

\* The upstream call of /invoke/fetch ends and the handler runs to its end.
InvokeFetchEnd ==
    /\ inv.pc = "await"
    /\ inv.endpoint = "fetch"
    /\ \E reply \in Replies :
          inv' = [inv EXCEPT !.pc = "done", !.reply = reply,
                             !.response = FetchRespond(reply)]
    /\ UNCHANGED <<upstream, sse>>

\* The response is sent; the process takes the next request.
Deliver ==
    /\ inv.pc = "done"
    /\ inv' = Idle
    /\ upstream' = <<>>
    /\ UNCHANGED sse

InvokeNext ==
    \/ InvokeSearchBegin
    \/ InvokeFetchBegin
    \/ InvokeSearchEnd
    \/ InvokeFetchEnd
    \/ Deliver

\* ------------------------------------------------------------- /sse
ToolsFrame == [event |-> "tools", data |-> JObj("tools" :> TOOLS)]

\* A keep-alive that sends the catalog again.
PingFrameRepeatsCatalog == ToolsFrame

PingFrame == [event |-> "ping", data |-> EmptyObj]

\* A test that never sees the peer go.
IsDisconnectedNever(c) == FALSE

\* await request.is_disconnected()
IsDisconnected(c) == sse[c].disconnected

\* GET /sse: the handler returns the streaming response; gen() has not run yet.
Connect(c) ==
    /\ sse[c].pc \in {"none", "closed"}
    /\ sse[c].conns < MaxConns
    /\ sse' = [sse EXCEPT ![c] = [pc |-> "open", disconnected |-> FALSE, frames |-> <<>>,
                                  conns |-> sse[c].conns + 1, latePings |-> 0]]
    /\ UNCHANGED <<inv, upstream>>

\* gen(): the catalog frame.
EmitTools(c) ==
    /\ sse[c].pc = "open"
    /\ sse' = [sse EXCEPT ![c].frames = Append(@, ToolsFrame), ![c].pc = "check"]
    /\ UNCHANGED <<inv, upstream>>

\* gen(): the loop's test; the model follows a connected peer for MaxFrames frames.
CheckDisconnected(c) ==
    /\ sse[c].pc = "check"
    /\ IF IsDisconnected(c)
       THEN sse' = [sse EXCEPT ![c].pc = "closed"]
       ELSE /\ Len(sse[c].frames) < MaxFrames
            /\ sse' = [sse EXCEPT ![c].pc = "sleep"]
    /\ UNCHANGED <<inv, upstream>>

\* gen(): the sleep returns and the ping frame is yielded.
SleepThenPing(c) ==
    /\ sse[c].pc = "sleep"
    /\ sse' = [sse EXCEPT ![c].frames = Append(@, PingFrame),
                          ![c].pc = "check",
                          ![c].latePings = IF sse[c].disconnected THEN @ + 1 ELSE @]
    /\ UNCHANGED <<inv, upstream>>

\* The peer goes away, at any moment of an open connection.
PeerDisconnect(c) ==
    /\ sse[c].pc \in {"open", "check", "sleep"}
    /\ ~sse[c].disconnected
    /\ sse' = [sse EXCEPT ![c].disconnected = TRUE]
    /\ UNCHANGED <<inv, upstream>>

GenStep(c) == EmitTools(c) \/ CheckDisconnected(c) \/ SleepThenPing(c)

SseNext == \E c \in Clients : Connect(c) \/ GenStep(c) \/ PeerDisconnect(c)

\* ------------------------------------------------------------- specifications
Next == InvokeNext \/ SseNext

Spec == Init /\ [][Next]_vars

\* The tool endpoints alone.
InvokeSpec == Init /\ [][InvokeNext]_vars

\* The discovery stream alone.
SseSpec == Init /\ [][SseNext]_vars

\* The discovery stream, with the event loop running every generator that can run.
SseFairSpec == SseSpec /\ \A c \in Clients : WF_vars(GenStep(c))

\* ------------------------------------------------------------- discovery stream: claims
\* C1: on every connection to /sse, first connection or reconnection, the first
\* frame is the `tools` frame with the whole TOOLS catalog, it is there as soon
\* as the loop is entered, and every later frame is a `ping` frame.
C1_CatalogOnceThenPings ==
    \A c \in Clients :
        LET f == sse[c].frames
        IN  /\ sse[c].pc \in {"check", "sleep", "closed"} => Len(f) >= 1
            /\ \A i \in 1..Len(f) :
                  IF i = 1
                  THEN f[i].event = "tools" /\ f[i].data = JObj("tools" :> TOOLS)
                  ELSE f[i].event = "ping"

\* A reconnection that has received the catalog and two pings.
C1_Witness ==
    \E c \in Clients :
        /\ sse[c].conns = 2
        /\ Len(sse[c].frames) = 3
        /\ sse[c].frames[3].event = "ping"

\* C2: once the peer has disconnected the stream reaches CLOSED, given that the
\* event loop keeps running the generator; a stream is CLOSED only if its peer
\* has disconnected; and a sleeping loop goes on to its next ping.
C2_ClosesOnDisconnectOnly ==
    \A c \in Clients :
        /\ sse[c].disconnected ~> (sse[c].pc = "closed")
        /\ [](sse[c].pc = "closed" => sse[c].disconnected)
        /\ (sse[c].pc = "sleep") ~> (sse[c].pc = "check")

\* A stream that pinged and then closed on its peer's disconnect.
C2_Witness ==
    \E c \in Clients :
        /\ sse[c].pc = "closed"
        /\ sse[c].disconnected
        /\ Len(sse[c].frames) >= 2

\* C10: no `ping` frame is emitted after the peer has disconnected, a
\* disconnect during the sleep included.
C10_NoPingAfterDisconnect == \A c \in Clients : sse[c].latePings = 0

\* ------------------------------------------------------------- tool endpoints: claims
\* The invocation got past argument parsing: its upstream call is pending or over.
PastParsing == inv.pc = "await" \/ (inv.pc = "done" /\ inv.reply.kind # "none")

\* The invocation ended on an upstream reply.
Replied == inv.pc = "done" /\ inv.reply.kind # "none"

\* The response is the error FastAPI makes of an HTTPException.
IsHttpError(response) == response.body.t = "obj" /\ "detail" \in DOMAIN response.body.o

\* The response is a tool's envelope.
IsEnvelope(response) == response.body.t = "obj" /\ "ok" \in DOMAIN response.body.o

InternalErrorReply ==
    Response(500, <<"i", "n", "t", "e", "r", "n", "a", "l", " ", "e", "r", "r", "o", "r">>,
             InvalidJson)

\* C3: an upstream response of status s >= 400 and text b ends the invocation
\* with an error of status s whose message contains b; an upstream status
\* below 400 gives no such error.
C3_UpstreamErrorSurfaced ==
    (Replied /\ inv.reply.kind = "response") =>
        IF inv.reply.status >= 400
        THEN /\ inv.response.status = inv.reply.status
             /\ IsHttpError(inv.response)
             /\ Contains(inv.response.body.o["detail"].s, inv.reply.text)
        ELSE ~IsHttpError(inv.response)

\* An upstream 500 "internal error" surfaced as a 500.
C3_Witness ==
    /\ Replied
    /\ inv.reply = InternalErrorReply
    /\ inv.response.status = 500

\* C4: an invocation that got past argument parsing has sent exactly one
\* upstream request, whatever the upstream outcome, and a failed upstream call
\* (status >= 400 or timeout) ends it with an error, not with an envelope.
C4_OneUpstreamRequest ==
    /\ PastParsing => Len(upstream) = 1
    /\ (Replied /\ (inv.reply.kind = "timeout" \/ inv.reply.status >= 400)) =>
          /\ inv.response.status >= 400
          /\ ~IsEnvelope(inv.response)

\* An invocation ended by an upstream timeout, after its one request.
C4_Witness ==
    /\ Replied
    /\ inv.reply.kind = "timeout"
    /\ Len(upstream) = 1
    /\ inv.response.status = 500

\* The hit list of a successful upstream response is missing (no "hits" key,
\* outer or inner) or empty.
NoHits(data) ==
    \/ "hits" \notin DOMAIN data.o
    \/ /\ data.o["hits"].t = "obj"
       /\ \/ "hits" \notin DOMAIN data.o["hits"].o
          \/ data.o["hits"].o["hits"] = JList(<<>>)

\* The hit list is there and is not empty.
SomeHits(data) ==
    /\ "hits" \in DOMAIN data.o
    /\ data.o["hits"].t = "obj"
    /\ "hits" \in DOMAIN data.o["hits"].o
    /\ data.o["hits"].o["hits"].t = "list"
    /\ data.o["hits"].o["hits"].l # <<>>

\* The _source of the first hit of a hit list that is not empty (null if it has none).
FirstHitSource(data) ==
    LET first == data.o["hits"].o["hits"].l[1]
    IN  IF "_source" \in DOMAIN first.o THEN first.o["_source"] ELSE JNull

FetchEnvelope(result) == OkResponse(JObj(("ok" :> JBool(TRUE)) @@ ("result" :> result)))

\* /invoke/fetch ended on a successful upstream response with a JSON object.
FetchSucceeded ==
    /\ Replied
    /\ inv.endpoint = "fetch"
    /\ inv.reply.kind = "response"
    /\ inv.reply.status < 400
    /\ inv.reply.json # InvalidJson

\* C5, as claimed: with no hits /invoke/fetch returns {ok: true, result: null},
\* and with hits it returns {ok: true, result: <_source of the first hit>}.
C5_FetchFirstSource_Original ==
    FetchSucceeded =>
        /\ NoHits(inv.reply.json) => inv.response = FetchEnvelope(JNull)
        /\ SomeHits(inv.reply.json) =>
              inv.response = FetchEnvelope(FirstHitSource(inv.reply.json))

\* C5, amended: with hits, the result is the first hit's _source when that is a
\* non-empty object, and null when the first hit's _source is absent or empty.
C5_FetchFirstSource ==
    FetchSucceeded =>
        /\ NoHits(inv.reply.json) => inv.response = FetchEnvelope(JNull)
        /\ SomeHits(inv.reply.json) =>
              LET src == FirstHitSource(inv.reply.json)
              IN  inv.response =
                     FetchEnvelope(IF src.t = "obj" /\ DOMAIN src.o # {} THEN src ELSE JNull)

\* A fetch that returned the first of two different hits.
C5_Witness ==
    /\ FetchSucceeded
    /\ SomeHits(inv.reply.json)
    /\ Len(inv.reply.json.o["hits"].o["hits"].l) = 2
    /\ FirstHitSource(inv.reply.json) = JObj("numeroProcesso" :> P1)
    /\ inv.reply.json.o["hits"].o["hits"].l[2] = JObj("_source" :> JObj("numeroProcesso" :> P2))
    /\ inv.response = FetchEnvelope(JObj("numeroProcesso" :> P1))

\* C6: the ids of /invoke/search hold no null, no duplicate, and at most `size`
\* entries, whatever the upstream hit list.
C6_IdsDistinctWithinSize ==
    (Replied /\ inv.endpoint = "search" /\ IsEnvelope(inv.response)) =>
        LET ids == inv.response.body.o["ids"].l
        IN  /\ \A i \in 1..Len(ids) : ids[i] # JNull
            /\ \A i, j \in 1..Len(ids) : i # j => ids[i] # ids[j]
            /\ Len(ids) <= upstream[1].content.o["size"].n

\* The arguments object of a request body, as the contract reads it.
SuppliedArgs(payload) ==
    IF "arguments" \in DOMAIN payload.o THEN payload.o["arguments"] ELSE payload

\* The alias the caller supplied, Absent if none.
SuppliedAlias(payload) ==
    IF "alias" \in DOMAIN SuppliedArgs(payload).o THEN SuppliedArgs(payload).o["alias"]
    ELSE Absent

\* {DATAJUD_BASE}/{alias}/_search
TargetOf(alias) == DATAJUD_BASE \o <<"/">> \o alias \o <<"/", "_", "s", "e", "a", "r", "c", "h">>

\* C7: with `alias` absent, null or "" the upstream request targets
\* {DATAJUD_BASE}/{DEFAULT_ALIAS}/_search; the alias in the path is never the
\* empty string; a supplied non-empty alias is used unchanged.
C7_AliasFallsBackToDefault ==
    PastParsing =>
        LET a == SuppliedAlias(inv.payload)
            url == upstream[1].url
        IN  /\ a \in {Absent, JNull, JStr(<<>>)} => url = TargetOf(DEFAULT_ALIAS)
            /\ url # TargetOf(<<>>)
            /\ (a.t = "str" /\ a.s # <<>>) => url = TargetOf(a.s)

\* A wrapped request with alias "" sent to the default alias.
C7_Witness ==
    /\ PastParsing
    /\ "arguments" \in DOMAIN inv.payload.o
    /\ SuppliedAlias(inv.payload) = JStr(<<>>)
    /\ upstream[1].url = TargetOf(DEFAULT_ALIAS)

\* The required argument of the endpoint is missing from the request.
RequiredMissing ==
    /\ inv.pc = "done"
    /\ SuppliedArgs(inv.payload).t = "obj"
    /\ (IF inv.endpoint = "search" THEN "query" ELSE "id")
          \notin DOMAIN SuppliedArgs(inv.payload).o

\* C8: a request without its required argument ends with a 4xx client error
\* and makes no upstream request.
C8_MissingArgumentIsClientError ==
    RequiredMissing =>
        /\ inv.response.status \in 400..499
        /\ upstream = <<>>

\* What the endpoint does with request body `payload` up to its upstream call.
ParseOf(endpoint, payload) ==
    IF endpoint = "search" THEN SearchParse(payload) ELSE FetchParse(payload)

\* The invocation of a wrapped body did what the invocation of the flat body
\* `args` does: the same fault, or the same upstream request.
SameAsFlat(args) ==
    LET flat == ParseOf(inv.endpoint, args)
    IN  IF flat.fault
        THEN upstream = <<>> /\ inv.response = ErrorResponse(Fault)
        ELSE upstream = <<[url |-> TargetOf(flat.alias), content |-> flat.body]>>

\* C9, as claimed: the flat body A and the wrapped body {"arguments": A} give
\* the same upstream request, for every arguments object A.
C9_WrappedSameAsFlat_Original ==
    (inv.pc \in {"await", "done"} /\ "arguments" \in DOMAIN inv.payload.o
        /\ inv.payload.o["arguments"].t = "obj"
        /\ inv.payload = Wrapped(inv.payload.o["arguments"])) =>
        SameAsFlat(inv.payload.o["arguments"])

\* C9, amended: the same, for every arguments object A that has no key named
\* "arguments".
C9_WrappedSameAsFlat ==
    (inv.pc \in {"await", "done"} /\ "arguments" \in DOMAIN inv.payload.o
        /\ inv.payload.o["arguments"].t = "obj"
        /\ inv.payload = Wrapped(inv.payload.o["arguments"])
        /\ "arguments" \notin DOMAIN inv.payload.o["arguments"].o) =>
        SameAsFlat(inv.payload.o["arguments"])

\* A wrapped search, its arguments object free of an "arguments" key, answered.
C9_Witness ==
    /\ Replied
    /\ inv.endpoint = "search"
    /\ inv.payload = Wrapped(JObj(("query" :> JStr(<<" ", "a", " ">>))
                                  @@ ("alias" :> JStr(<<"t", "j">>))))
    /\ inv.response.status = 200
    /\ upstream[1].url = TargetOf(<<"t", "j">>)

====
